---- MODULE Spec2Model ----
(***************************************************************************)
(* arc4random_uniform(limit): Lemire's nearly-divisionless bounded random  *)
(* number, sys/libkern/arc4random_uniform.c.                               *)
(*                                                                         *)
(* The word width of the C code is 32 bits (uint32_t) and the product is   *)
(* twice as wide (uint64_t).  The algorithm is the same at every width, so *)
(* the model keeps the width as WordBits and does all the arithmetic       *)
(* modulo 2^WordBits (words) and 2^(2*WordBits) (the product).  Every      *)
(* constant of the prose that is written for 32 bits reads here with       *)
(* 2^WordBits for 2^32 and 2^(WordBits-1) for 2^31.                        *)
(***************************************************************************)
EXTENDS Integers, Sequences, FiniteSets

(* Width in bits of uint32_t in the model; uint64_t is twice as wide. *)
WordBits == 4

(* The most words one call draws in the specification Spec. *)
MaxDraws == 2

TwoW == 2 ^ WordBits

TwoWW == TwoW * TwoW

(* The values of a uint32_t: the limits a caller can pass and the words
   arc4random() can return. *)
Words == 0 .. (TwoW - 1)

(* Slip: the operands are not widened, the product wraps at 32 bits. *)
MulNarrow(w, l) == (w * l) % TwoW

(* (uint64_t)w * (uint64_t)limit *)
Mul(w, l) == (w * l) % TwoWW

(* (uint32_t)(num): the fraction part of the fixed-point product. *)
Lo(n) == n % TwoW

(* Slip: the return statement casts num without shifting it. *)
HiLow(n) == n % TwoW

(* (uint32_t)(num >> 32): the integer part of the fixed-point product. *)
Hi(n) == (n \div TwoW) % TwoW

(* Slip: bitwise complement in place of the negation. *)
NegNot(l) == (TwoW - 1 - l) % TwoW

(* (uint32_t)(-limit): unsigned negation wraps modulo 2^32. *)
Neg32(l) == (TwoW - l) % TwoW

(* Slip: (uint32_t)(1 << 32) % limit, the shift wrapping to zero. *)
ResidueOverflow(l) == (TwoW % TwoW) % l

(* residue = (uint32_t)(-limit) % limit; only evaluated with limit > 0. *)
Residue(l) == Neg32(l) % l

(* Slip: num compared at 64 bits, the cast left out. *)
SlowPathGuardWide(n, l) == n < l

(* Slip: <= in place of < in the guard. *)
SlowPathGuardLe(n, l) == Lo(n) <= l

(* The slow-path guard of the if: (uint32_t)(num) < limit. *)
SlowPathGuard(n, l) == Lo(n) < l

(* Slip: <= in place of < in the loop condition. *)
RejectsLe(n, r) == Lo(n) <= r

(* The condition of the while: (uint32_t)(num) < residue. *)
Rejects(n, r) == Lo(n) < r

VARIABLES
    limit,      \* the argument of the call
    num,        \* uint64_t num
    residue,    \* uint32_t residue (0 until the slow path sets it)
    pc,         \* the position of the call
    drawn,      \* the words arc4random() has returned to this call, in order
    ret         \* the value returned (0 until the call returns)

vars == <<limit, num, residue, pc, drawn, ret>>

TypeOK ==
    /\ limit \in Words
    /\ num \in 0 .. (TwoWW - 1)
    /\ residue \in Words
    /\ pc \in {"call", "test", "slow", "loop", "ret", "done", "fault"}
    /\ drawn \in Seq(Words)
    /\ ret \in Words

(* A caller passes any uint32_t, zero included. *)
Init ==
    /\ limit \in Words
    /\ num = 0
    /\ residue = 0
    /\ pc = "call"
    /\ drawn = <<>>
    /\ ret = 0

(* uint64_t num = (uint64_t)arc4random() * (uint64_t)limit; *)
FirstDraw ==
    /\ pc = "call"
    /\ \E w \in Words :
        /\ num' = Mul(w, limit)
        /\ drawn' = <<w>>
    /\ pc' = "test"
    /\ UNCHANGED <<limit, residue, ret>>

(* if ((uint32_t)(num) < limit) { ... } *)
FastTest ==
    /\ pc = "test"
    /\ pc' = IF SlowPathGuard(num, limit) THEN "slow" ELSE "ret"
    /\ UNCHANGED <<limit, num, residue, drawn, ret>>

(* uint32_t residue = (uint32_t)(-limit) % limit;
   a modulo by zero does not produce a value: the call faults. *)
ComputeResidue ==
    /\ pc = "slow"
    /\ IF limit = 0
         THEN pc' = "fault" /\ UNCHANGED residue
         ELSE residue' = Residue(limit) /\ pc' = "loop"
    /\ UNCHANGED <<limit, num, drawn, ret>>

(* Slip: the loop body does not assign the new product to num. *)
ResampleStuck(w) ==
    /\ pc = "loop"
    /\ Rejects(num, residue)
    /\ UNCHANGED vars

(* while ((uint32_t)(num) < residue)
       num = (uint64_t)arc4random() * (uint64_t)limit;
   one iteration, arc4random() returning w. *)
ResampleWith(w) ==
    /\ pc = "loop"
    /\ Rejects(num, residue)
    /\ num' = Mul(w, limit)
    /\ drawn' = IF Len(drawn) < MaxDraws
                  THEN Append(drawn, w)
                  ELSE Append(Tail(drawn), w)
    /\ UNCHANGED <<limit, residue, pc, ret>>

(* An iteration of the while, every drawn word on record. *)
Resample ==
    /\ Len(drawn) < MaxDraws
    /\ \E w \in Words : ResampleWith(w)

(* An iteration of the while past MaxDraws words: drawn keeps the last
   MaxDraws of them. *)
ResampleMore ==
    /\ Len(drawn) = MaxDraws
    /\ \E w \in Words : ResampleWith(w)

(* The while condition is false: leave the loop. *)
LoopExit ==
    /\ pc = "loop"
    /\ ~Rejects(num, residue)
    /\ pc' = "ret"
    /\ UNCHANGED <<limit, num, residue, drawn, ret>>

(* return ((uint32_t)(num >> 32)); *)
Return ==
    /\ pc = "ret"
    /\ ret' = Hi(num)
    /\ pc' = "done"
    /\ UNCHANGED <<limit, num, residue, drawn>>

Next ==
    \/ FirstDraw
    \/ FastTest
    \/ ComputeResidue
    \/ Resample
    \/ LoopExit
    \/ Return

(* One call, at most MaxDraws words drawn. *)
Spec == Init /\ [][Next]_vars

NextLive == Next \/ ResampleMore

(* arc4random() returns a word with a fraction outside the sliver. *)
DrawAccepted ==
    \E w \in Words :
        /\ ~Rejects(Mul(w, limit), residue)
        /\ ResampleWith(w)

(* One call with no bound on the words drawn.  The call keeps executing its
   own statements, arc4random() always returns, and it does not forever
   return words in the sliver. *)
LiveSpec ==
    /\ Init
    /\ [][NextLive]_vars
    /\ WF_vars(FirstDraw \/ FastTest \/ ComputeResidue \/ LoopExit \/ Return)
    /\ WF_vars(DrawAccepted)

(***************************************************************************)
(* The arithmetic the properties are stated in, written without the        *)
(* operators of the model: fraction and candidate of a word, and the       *)
(* remainder of 2^WordBits by the limit.                                   *)
(***************************************************************************)
Frac(w, l) == (w * l) % TwoW

Cand(w, l) == (w * l) \div TwoW

TrueResidue(l) == TwoW % l

IsPow2(l) == \E k \in 0 .. (WordBits - 1) : l = 2 ^ k

(* The reference sampler on the word stream s from position i: it resamples
   while the fraction is below the remainder, with no approximate test first.
   count is the number of words it consumes (Len(s) + 1 when the stream ends
   before it accepts a word). *)
RECURSIVE RefSample(_, _, _)
RefSample(l, s, i) ==
    IF i > Len(s)
      THEN [count |-> i, value |-> TwoW]
      ELSE IF Frac(s[i], l) < TrueResidue(l)
             THEN RefSample(l, s, i + 1)
             ELSE [count |-> i, value |-> Cand(s[i], l)]

(* C1: whenever a call with limit >= 1 returns, the value returned is
   strictly less than limit. *)
C1_Range ==
    (pc = "done" /\ limit >= 1) => ret < limit

(* A call returned the largest value of the range after a rejection. *)
C1_Witness ==
    pc = "done" /\ limit >= 2 /\ ret = limit - 1 /\ Len(drawn) >= 2

(* C2: for limit >= 1 and every v in [0, limit), the words the loop
   condition accepts and whose candidate is v number exactly
   floor(2^WordBits / limit). *)
C2_Unbiased ==
    (pc = "loop" /\ Len(drawn) = 1) =>
        \A v \in 0 .. (limit - 1) :
            Cardinality({w \in Words :
                            /\ ~Rejects(Mul(w, limit), residue)
                            /\ Hi(Mul(w, limit)) = v})
                = TwoW \div limit

(* The residue is computed for a limit that does not divide 2^WordBits and
   leaves every value at least two words. *)
C2_Witness ==
    pc = "loop" /\ Len(drawn) = 1 /\ residue > 0 /\ TwoW \div limit >= 2

(* C3 as stated: a call with limit = 0 never completes by returning. *)
C3_Original ==
    limit = 0 => pc # "done"

(* C3, amended: a call with limit = 0 raises nothing: it draws exactly one
   word, never enters the slow path (so never divides) and returns 0. *)
C3_ZeroLimitReturnsZero ==
    limit = 0 =>
        /\ pc \notin {"slow", "loop", "fault"}
        /\ Len(drawn) <= 1
        /\ (pc = "done" => ret = 0 /\ Len(drawn) = 1)

(* A call with limit = 0 returned, having drawn a nonzero word. *)
C3_Witness ==
    limit = 0 /\ pc = "done" /\ drawn[1] > 0

(* C4: when a call with limit >= 1 returns, every word it drew but the last
   has a fraction below the remainder, the last has not, and the value is
   the candidate of the last: j rejected words cost exactly j + 1 draws.
   With limit = 3 and first word 0 the call draws a second word, and stops
   there with that word's candidate when its fraction is not below the
   remainder. *)
C4_ForcedRejection ==
    /\ (pc = "done" /\ limit >= 1) =>
          /\ \A i \in 1 .. (Len(drawn) - 1) :
                Frac(drawn[i], limit) < TrueResidue(limit)
          /\ Frac(drawn[Len(drawn)], limit) >= TrueResidue(limit)
          /\ ret = Cand(drawn[Len(drawn)], limit)
    /\ (pc \in {"ret", "done"} /\ limit = 3 /\ drawn[1] = 0) =>
          /\ Len(drawn) >= 2
          /\ (Frac(drawn[2], 3) >= TrueResidue(3) => Len(drawn) = 2)
          /\ (pc = "done" /\ Len(drawn) = 2 => ret = Cand(drawn[2], 3))

(* limit = 3, first word 0: two words drawn, the call returned. *)
C4_Witness ==
    pc = "done" /\ limit = 3 /\ drawn[1] = 0 /\ Len(drawn) = 2

(* C5 as stated: with limit a power of two every word drawn has a fraction
   >= limit and the slow-path branch is never entered. *)
C5_Original ==
    (IsPow2(limit) /\ Len(drawn) >= 1) =>
        /\ Frac(drawn[1], limit) >= limit
        /\ pc \notin {"slow", "loop"}

(* C5, amended: with limit a power of two no word is ever rejected: the call
   draws exactly one word and returns its candidate.  The slow-path branch
   is entered exactly when the fraction of that word is 0; the residue
   computed there is 0 and the loop body does not run. *)
C5_PowerOfTwoNoRejection ==
    IsPow2(limit) =>
        /\ Len(drawn) <= 1
        /\ (pc \in {"slow", "loop"} => Frac(drawn[1], limit) = 0)
        /\ (pc = "loop" => residue = 0 /\ ~Rejects(num, residue))
        /\ (pc = "done" => Len(drawn) = 1 /\ ret = Cand(drawn[1], limit))

(* A power of two above 1, a nonzero word with fraction 0: the call went
   through the slow path and returned after one draw. *)
C5_Witness ==
    /\ IsPow2(limit) /\ limit >= 2
    /\ pc = "done" /\ Len(drawn) = 1
    /\ drawn[1] > 0 /\ Frac(drawn[1], limit) = 0

(* C6: with limit >= 1 and a source that does not forever return words in
   the sliver, the call eventually returns; and the loop has no iteration
   bound: from a rejected word the only step is another draw. *)
C6_Termination ==
    /\ (pc = "call" /\ limit >= 1) ~> (pc = "done")
    /\ [][(pc = "loop" /\ Rejects(num, residue)) =>
            (pc' = "loop" /\ residue' = residue)]_vars

(* A call returned after at least one rejection. *)
C6_Witness ==
    pc = "done" /\ limit >= 1 /\ Len(drawn) >= 2

(* C7: for limit >= 1 the residue the slow path computes,
   (uint32_t)(-limit) % limit, equals 2^WordBits mod limit. *)
C7_ResidueTrick ==
    pc = "loop" => residue = TrueResidue(limit)

(* The residue of a limit above half the word range is computed. *)
C7_Witness ==
    pc = "loop" /\ limit > TwoW \div 2 /\ residue > 0

(* C8: for limit >= 1 the words the loop condition rejects number exactly
   residue = 2^WordBits mod limit, which is at most 2^(WordBits-1); when
   limit divides 2^WordBits the residue is 0, no word is rejected and a call
   draws exactly one word. *)
C8_RejectionRate ==
    /\ pc = "loop" =>
          /\ Cardinality({w \in Words : Rejects(Mul(w, limit), residue)})
                = TrueResidue(limit)
          /\ residue = TrueResidue(limit)
          /\ 2 * residue <= TwoW
          /\ (TrueResidue(limit) = 0 => ~Rejects(num, residue))
    /\ (limit >= 1 /\ TrueResidue(limit) = 0) => Len(drawn) <= 1

(* A word in a nonempty sliver was rejected and another drawn. *)
C8_Witness ==
    pc = "loop" /\ residue > 0 /\ Len(drawn) = 2 /\ Rejects(num, residue)

(* C9: for limit >= 1 the residue is below limit, so a word the approximate
   test accepts is not one the exact test rejects; and a call that returns
   has consumed the words, and returns the value, of the reference sampler
   on the same stream. *)
C9_FastPathSound ==
    /\ pc = "loop" => residue < limit
    /\ (pc = "test" /\ limit >= 1 /\ ~SlowPathGuard(num, limit)) =>
          ~Rejects(num, Residue(limit))
    /\ (pc = "done" /\ limit >= 1) =>
          /\ RefSample(limit, drawn, 1).count = Len(drawn)
          /\ RefSample(limit, drawn, 1).value = ret

(* The fast path accepted the first word of a limit with a nonempty
   sliver. *)
C9_Witness ==
    /\ pc = "done" /\ limit >= 1 /\ TrueResidue(limit) > 0
    /\ Len(drawn) = 1 /\ Frac(drawn[1], limit) >= limit

(* C10: for every limit, zero included, the modulo is evaluated only with
   limit > 0: the slow-path guard is false when limit = 0 and no call
   divides by zero. *)
C10_ModuloSafe ==
    /\ pc = "slow" => limit > 0
    /\ pc # "fault"
    /\ (pc = "test" /\ limit = 0) => ~SlowPathGuard(num, limit)

(* The modulo has been evaluated. *)
C10_Witness ==
    pc = "loop" /\ Len(drawn) = 1 /\ limit >= 1

====
